---- MODULE Spec2Model ----
(***************************************************************************)
(* Foodgram backend: the relational store (Ingredient, Recipe,             *)
(* RecipeIngredient, ShoppingCart, Favorite, Follow), the request handlers *)
(* of the api application (backend/api) and of the older recipes           *)
(* application (backend/recipes) that change or read it, and the           *)
(* shopping-list aggregation of download_shopping_cart in both variants.   *)
(*                                                                         *)
(* Every handler leaves its HTTP response in the variable response; a      *)
(* handler that returns a listing also leaves the lines it rendered.       *)
(***************************************************************************)
EXTENDS Integers, Sequences, FiniteSets, Bags, TLC

\* ------------------------------------------------------------------ bounds
MaxRecipes == 2      \* recipe primary keys are 1..MaxRecipes
MaxProcs == 2        \* requests in flight at once (interleaved handlers)

\* ------------------------------------------------------- program constants
MIN_INGREDIENT_AMOUNT == 1
MAX_INGREDIENT_AMOUNT == 32000

HTTP_200_OK == 200
HTTP_201_CREATED == 201
HTTP_204_NO_CONTENT == 204
HTTP_400_BAD_REQUEST == 400
HTTP_401_UNAUTHORIZED == 401
HTTP_403_FORBIDDEN == 403
HTTP_404_NOT_FOUND == 404
HTTP_500_INTERNAL_SERVER_ERROR == 500

\* ------------------------------------------------------------ identities
Users == {"u1", "u2"}
AnonymousUser == "anon"
Callers == Users \cup {AnonymousUser}
\* (mutant) every caller passes for authenticated
is_authenticated_anyone(user) == TRUE

is_authenticated(user) == user \in Users
Authors == {"u1"}    \* the users who post recipes

RecipeIds == 1..MaxRecipes
Procs == 1..MaxProcs

VARIABLES
    Ingredient,        \* catalog: id -> [name, measurement_unit]
    Recipe,            \* pk -> [author]          (rows that exist)
    RecipeIngredient,  \* set of [recipe, ingredient, amount]
    ShoppingCart,      \* bag of <<user, recipe>> rows
    Favorite,          \* bag of <<user, recipe>> rows
    Follow,            \* bag of <<user, author>> rows
    Token,             \* set of [user, key] rows (authtoken)
    lastRecipeId,      \* the primary-key sequence of Recipe
    pending,           \* per process: the handler it is inside, if any
    response           \* the response of the handler that ran last

store == <<Ingredient, Recipe, RecipeIngredient, ShoppingCart, Favorite,
           Follow, Token, lastRecipeId>>
vars == <<Ingredient, Recipe, RecipeIngredient, ShoppingCart, Favorite,
          Follow, Token, lastRecipeId, pending, response>>

\* ------------------------------------------------------------ text model
\* Names are compared as Python and the database compare them: by code
\* point, position by position.
CodePoints ==
    [flour |-> <<102, 108, 111, 117, 114>>,
     sugar |-> <<115, 117, 103, 97, 114>>,
     salt  |-> <<115, 97, 108, 116>>,
     g     |-> <<103>>,
     kg    |-> <<107, 103>>]

RECURSIVE SeqLess(_, _)
SeqLess(a, b) ==
    IF Len(b) = 0 THEN FALSE
    ELSE IF Len(a) = 0 THEN TRUE
    ELSE IF Head(a) # Head(b) THEN Head(a) < Head(b)
    ELSE SeqLess(Tail(a), Tail(b))

StrLess(a, b) == SeqLess(CodePoints[a], CodePoints[b])
StrLeq(a, b) == ~StrLess(b, a)

EM_DASH == "--"    \* stands for the one character U+2014

\* All orders in which the elements of a finite set can be retrieved.
Orderings(S) ==
    {s \in [1..Cardinality(S) -> S] :
        \A i, j \in 1..Cardinality(S) : i # j => s[i] # s[j]}

\* ------------------------------------------------------------- responses
Reply(op, user, status) ==
    [op |-> op, user |-> user, status |-> status, queried |-> FALSE,
     lines |-> <<>>, content |-> "", content_type |-> "application/json",
     content_disposition |-> ""]

NoResponse == Reply("none", AnonymousUser, 0)

Idle == [at |-> "idle", user |-> AnonymousUser, pk |-> 0]

\* ------------------------------------------- catalog and request payloads
IngredientCatalog ==
    (1 :> [name |-> "sugar", measurement_unit |-> "g"]) @@
    (2 :> [name |-> "flour", measurement_unit |-> "g"]) @@
    (3 :> [name |-> "flour", measurement_unit |-> "kg"])

Item(id, amount) == [id |-> id, amount |-> amount]

ValidLists ==
    { <<Item(2, 1)>>,
      <<Item(2, 150), Item(1, 50), Item(3, 32000)>> }

IngredientLists ==
    ValidLists \cup
    { <<>>,
      <<Item(2, 0)>>,
      <<Item(2, 32001)>>,
      <<Item(2, 1), Item(2, 2)>>,
      <<Item(4, 1)>> }

\* request.data of a recipe write: the ingredients key may be absent
Data(has_ingredients, ingredients, has_image) ==
    [has_ingredients |-> has_ingredients, ingredients |-> ingredients,
     has_image |-> has_image]

RecipeData ==
    {Data(TRUE, l, TRUE) : l \in IngredientLists} \cup
    {Data(TRUE, l, FALSE) : l \in ValidLists} \cup
    {Data(FALSE, <<>>, TRUE), Data(FALSE, <<>>, FALSE)}

\* ------------------------------------------------------------------ Init
Init ==
    /\ Ingredient = IngredientCatalog
    /\ Recipe = <<>>
    /\ RecipeIngredient = {}
    /\ ShoppingCart = EmptyBag
    /\ Favorite = EmptyBag
    /\ Follow = EmptyBag
    /\ Token = {}
    /\ lastRecipeId = 0
    /\ pending = [p \in Procs |-> Idle]
    /\ response = NoResponse


\* ------------------------------------------------------------ permissions
SAFE_METHODS == {"GET", "HEAD", "OPTIONS"}

\* IsAuthorOrReadOnly.has_permission of api/views.py
has_permission(method, user) ==
    method \in SAFE_METHODS \/ is_authenticated(user)

\* values of a query parameter that switch a list filter on
TRUTHY == {"1", "true"}

\* (mutant) the comparison with the author left out
has_object_permission_of_anyone(method, user, pk) == TRUE

\* IsAuthorOrReadOnly.has_object_permission, the same in both applications
has_object_permission(method, user, pk) ==
    method \in SAFE_METHODS \/ Recipe[pk].author = user

\* --------------------------------------------------------- database layer
\* Rows a filter on the reverse relation returns.
recipe_ingredients(pk) == {l \in RecipeIngredient : l.recipe = pk}
shopping_cart(user) == {pk \in DOMAIN Recipe : BagIn(<<user, pk>>, ShoppingCart)}

\* (mutant) the table without its unique_together constraint
ShoppingCart_insert_ok_no_unique(user, pk) == pk \in DOMAIN Recipe

\* unique_together = ('user', 'recipe') and the foreign key to Recipe: the
\* INSERT fails with IntegrityError when either is violated.
ShoppingCart_insert_ok(user, pk) ==
    /\ pk \in DOMAIN Recipe
    /\ ~BagIn(<<user, pk>>, ShoppingCart)

\* unique_together = ('recipe', 'ingredient') of RecipeIngredient
RecipeIngredient_insert_ok(rows, pk, ingredient) ==
    \A l \in rows : ~(l.recipe = pk /\ l.ingredient = ingredient)

\* (mutant) rows that reference the recipe stay behind
WithoutRecipe_no_cascade(B, pk) == B

\* All rows of bag B whose recipe is not pk (on_delete=CASCADE).
WithoutRecipe(B, pk) ==
    LET keep == {e \in BagToSet(B) : e[2] # pk}
    IN  [e \in keep |-> B[e]]

\* (mutant) the filter on the recipe left out: every row of the user goes
WithoutRow_of_user(B, e) ==
    LET keep == {x \in BagToSet(B) : x[1] # e[1]}
    IN  [x \in keep |-> B[x]]

\* All rows of bag B other than those equal to e (QuerySet.delete()).
WithoutRow(B, e) ==
    LET keep == BagToSet(B) \ {e}
    IN  [x \in keep |-> B[x]]

\* ------------------------------------------------------------ serializers
\* RecipeIngredientWriteSerializer of api/serializers.py: the id must name
\* an Ingredient row, the amount lies within the two bounds.
api_RecipeIngredientWriteSerializer(item) ==
    /\ item.id \in DOMAIN Ingredient
    /\ item.amount >= MIN_INGREDIENT_AMOUNT
    /\ item.amount <= MAX_INGREDIENT_AMOUNT

Ids(items) == {items[i].id : i \in 1..Len(items)}
no_repeats(items) == Len(items) = Cardinality(Ids(items))

\* RecipeCreateSerializer: field validation (ingredients required and
\* allow_empty=False, image required), then validate().
api_RecipeCreateSerializer_is_valid(data) ==
    /\ data.has_ingredients
    /\ Len(data.ingredients) > 0
    /\ \A i \in 1..Len(data.ingredients) :
           api_RecipeIngredientWriteSerializer(data.ingredients[i])
    /\ data.has_image
    /\ no_repeats(data.ingredients)

\* RecipeUpdateSerializer: both fields optional at field level, an empty
\* list passes the field; validate() then asks PATCH for a non-empty list,
\* rejects repeats and ends in the create serializer's validate(), which
\* asks for the image.
api_RecipeUpdateSerializer_is_valid(method, data) ==
    /\ data.has_ingredients =>
           \A i \in 1..Len(data.ingredients) :
               api_RecipeIngredientWriteSerializer(data.ingredients[i])
    /\ method = "PATCH" =>
           (data.has_ingredients /\ Len(data.ingredients) > 0)
    /\ data.has_ingredients => no_repeats(data.ingredients)
    /\ data.has_image

\* _create_recipe_ingredients: one row per item, bulk_create
NewRows(pk, items) ==
    {[recipe |-> pk, ingredient |-> items[i].id, amount |-> items[i].amount] :
        i \in 1..Len(items)}

\* (mutant) the delete() before bulk_create left out: old lines stay
replace_lines_keeping_old(rows, pk, items) == rows \cup NewRows(pk, items)

\* instance.recipe_ingredients.all().delete(), then
\* _create_recipe_ingredients(instance, ingredients_data_list)
replace_lines(rows, pk, items) ==
    {l \in rows : l.recipe # pk} \cup NewRows(pk, items)

\* ------------------------------------------------------- recipe handlers
\* POST /api/recipes/ (RecipeViewSet.create with RecipeCreateSerializer)
api_create(user) ==
    /\ UNCHANGED <<Ingredient, ShoppingCart, Favorite, Follow, pending, Token>>
    /\ IF ~is_authenticated(user)
       THEN /\ response' = Reply("create", user, HTTP_401_UNAUTHORIZED)
            /\ UNCHANGED <<Recipe, RecipeIngredient, lastRecipeId, Token>>
       ELSE \E data \in RecipeData :
            IF ~api_RecipeCreateSerializer_is_valid(data)
            THEN /\ response' = Reply("create", user, HTTP_400_BAD_REQUEST)
                 /\ UNCHANGED <<Recipe, RecipeIngredient, lastRecipeId, Token>>
            ELSE
            /\ lastRecipeId < MaxRecipes
            /\ lastRecipeId' = lastRecipeId + 1
            /\ Recipe' = (lastRecipeId' :> [author |-> user]) @@ Recipe
            /\ RecipeIngredient' =
                   RecipeIngredient \cup NewRows(lastRecipeId', data.ingredients)
            /\ response' = Reply("create", user, HTTP_201_CREATED)

\* serializer.is_valid() and serializer.save() of an update the permission
\* classes have let through
api_update_apply(user, pk, method, data) ==
    IF ~api_RecipeUpdateSerializer_is_valid(method, data)
    THEN /\ response' = Reply("update", user, HTTP_400_BAD_REQUEST)
         /\ UNCHANGED RecipeIngredient
    ELSE /\ RecipeIngredient' =
                IF data.has_ingredients
                THEN replace_lines(RecipeIngredient, pk, data.ingredients)
                ELSE RecipeIngredient
         /\ response' = Reply("update", user, HTTP_200_OK)

\* PUT / PATCH /api/recipes/{pk}/ (update, partial_update)
api_update(user, pk) ==
    /\ UNCHANGED <<Ingredient, Recipe, ShoppingCart, Favorite, Follow,
                   lastRecipeId, pending, Token>>
    /\ IF ~has_permission("PUT", user)
       THEN /\ response' = Reply("update", user, HTTP_401_UNAUTHORIZED)
            /\ UNCHANGED RecipeIngredient
       ELSE IF pk \notin DOMAIN Recipe
       THEN /\ response' = Reply("update", user, HTTP_404_NOT_FOUND)
            /\ UNCHANGED RecipeIngredient
       ELSE IF ~has_object_permission("PUT", user, pk)
       THEN /\ response' = Reply("update", user, HTTP_403_FORBIDDEN)
            /\ UNCHANGED RecipeIngredient
       ELSE \E method \in {"PUT", "PATCH"}, data \in RecipeData :
            api_update_apply(user, pk, method, data)

\* DELETE /api/recipes/{pk}/ : the rows that reference the recipe go with it
destroy(user, pk) ==
    /\ UNCHANGED <<Ingredient, Follow, lastRecipeId, pending, Token>>
    /\ IF ~has_permission("DELETE", user)
       THEN /\ response' = Reply("destroy", user, HTTP_401_UNAUTHORIZED)
            /\ UNCHANGED <<Recipe, RecipeIngredient, ShoppingCart, Favorite, Token>>
       ELSE IF pk \notin DOMAIN Recipe
       THEN /\ response' = Reply("destroy", user, HTTP_404_NOT_FOUND)
            /\ UNCHANGED <<Recipe, RecipeIngredient, ShoppingCart, Favorite, Token>>
       ELSE IF ~has_object_permission("DELETE", user, pk)
       THEN /\ response' = Reply("destroy", user, HTTP_403_FORBIDDEN)
            /\ UNCHANGED <<Recipe, RecipeIngredient, ShoppingCart, Favorite, Token>>
       ELSE /\ Recipe' = [r \in DOMAIN Recipe \ {pk} |-> Recipe[r]]
            /\ RecipeIngredient' = RecipeIngredient \ recipe_ingredients(pk)
            /\ ShoppingCart' = WithoutRecipe(ShoppingCart, pk)
            /\ Favorite' = WithoutRecipe(Favorite, pk)
            /\ response' = Reply("destroy", user, HTTP_204_NO_CONTENT)

\* ---------------------------------------------------------- cart handlers
\* POST / DELETE /api/recipes/{pk}/shopping_cart/, run without interruption
api_shopping_cart(user, pk, method) ==
    /\ UNCHANGED <<Ingredient, Recipe, RecipeIngredient, Favorite, Follow,
                   lastRecipeId, pending, Token>>
    /\ IF ~is_authenticated(user)
       THEN /\ response' = Reply("shopping_cart", user, HTTP_401_UNAUTHORIZED)
            /\ UNCHANGED ShoppingCart
       ELSE IF pk \notin DOMAIN Recipe
       THEN /\ response' = Reply("shopping_cart", user, HTTP_404_NOT_FOUND)
            /\ UNCHANGED ShoppingCart
       ELSE IF method = "POST"
       THEN IF BagIn(<<user, pk>>, ShoppingCart)
            THEN /\ response' = Reply("shopping_cart", user, HTTP_400_BAD_REQUEST)
                 /\ UNCHANGED ShoppingCart
            ELSE /\ ShoppingCart' = ShoppingCart (+) SetToBag({<<user, pk>>})
                 /\ response' = Reply("shopping_cart", user, HTTP_201_CREATED)
       ELSE IF ~BagIn(<<user, pk>>, ShoppingCart)
            THEN /\ response' = Reply("shopping_cart", user, HTTP_400_BAD_REQUEST)
                 /\ UNCHANGED ShoppingCart
            ELSE /\ ShoppingCart' = WithoutRow(ShoppingCart, <<user, pk>>)
                 /\ response' = Reply("shopping_cart", user, HTTP_204_NO_CONTENT)


\* ------------------------------------------------------------- aggregator
\* (mutant) the filter on the cart's user left out
JoinedRows_any_user(user) ==
    {[line |-> l, copies |-> 1] :
        l \in {x \in RecipeIngredient :
                  \E u \in Users : BagIn(<<u, x.recipe>>, ShoppingCart)}}

\* The rows of RecipeIngredient.objects.filter(
\*     recipe__in_shopping_carts__user=user): the join returns a line once
\* per cart row of the user that references the line's recipe.
JoinedRows(user) ==
    {[line |-> l, copies |-> CopiesIn(<<user, l.recipe>>, ShoppingCart)] :
        l \in {x \in RecipeIngredient :
                  CopiesIn(<<user, x.recipe>>, ShoppingCart) > 0}}

\* (mutant) grouping by the name alone
GroupKey_name_only(l) == <<Ingredient[l.ingredient].name, "">>

\* .values('ingredient__name', 'ingredient__measurement_unit')
GroupKey(l) ==
    <<Ingredient[l.ingredient].name, Ingredient[l.ingredient].measurement_unit>>

\* (mutant) Max('amount') in place of Sum('amount')
RECURSIVE SumAmount_Max(_)
SumAmount_Max(rows) ==
    IF rows = {} THEN 0
    ELSE LET r == CHOOSE x \in rows : TRUE
             m == SumAmount_Max(rows \ {r})
         IN  IF r.line.amount * r.copies > m THEN r.line.amount * r.copies ELSE m

\* Sum('amount') over the joined rows of one group
RECURSIVE SumAmount(_)
SumAmount(rows) ==
    IF rows = {} THEN 0
    ELSE LET r == CHOOSE x \in rows : TRUE
         IN  r.line.amount * r.copies + SumAmount(rows \ {r})

\* .values(...).annotate(amount=Sum('amount')): one item per group
api_annotate(user) ==
    {[name |-> k[1], unit |-> k[2],
      amount |-> SumAmount({r \in JoinedRows(user) : GroupKey(r.line) = k})] :
        k \in {GroupKey(r.line) : r \in JoinedRows(user)}}

\* .order_by('ingredient__name'): the name is the only sort key, so the
\* database returns groups of equal name in an order of its choosing.
order_by_name(items) ==
    {s \in Orderings(items) :
        \A i, j \in 1..Len(s) : i < j => StrLeq(s[i].name, s[j].name)}

\* (mutant) ingredients[key] = amount: a later line replaces the sum so far
dict_add_overwriting(d, key, amount) ==
    IF \E i \in 1..Len(d) : d[i].name = key[1] /\ d[i].unit = key[2]
    THEN [i \in 1..Len(d) |->
            IF d[i].name = key[1] /\ d[i].unit = key[2]
            THEN [d[i] EXCEPT !.amount = amount]
            ELSE d[i]]
    ELSE Append(d, [name |-> key[1], unit |-> key[2], amount |-> amount])

\* recipes/views.py: ingredients[key] = ingredients.get(key, 0) + amount on
\* a dict, which keeps its keys in the order of their first insertion.
dict_add(d, key, amount) ==
    IF \E i \in 1..Len(d) : d[i].name = key[1] /\ d[i].unit = key[2]
    THEN [i \in 1..Len(d) |->
            IF d[i].name = key[1] /\ d[i].unit = key[2]
            THEN [d[i] EXCEPT !.amount = @ + amount]
            ELSE d[i]]
    ELSE Append(d, [name |-> key[1], unit |-> key[2], amount |-> amount])

\* The inner loop over item.recipe.recipe_ingredients...all(), once per cart
\* row of the recipe; no order_by, so the rows come in any order. The
\* result is the set of dicts the loop can end with.
RECURSIVE loop_lines(_, _, _)
loop_lines(d, rows, copies) ==
    IF rows = {} THEN {d}
    ELSE UNION {loop_lines(dict_add(d, GroupKey(l), l.amount * copies),
                           rows \ {l}, copies) : l \in rows}

\* The outer loop over request.user.shopping_cart...all(), in any order.
RECURSIVE loop_cart(_, _, _)
loop_cart(ds, user, pks) ==
    IF pks = {} THEN ds
    ELSE UNION {loop_cart(
                    UNION {loop_lines(d, recipe_ingredients(pk),
                                      CopiesIn(<<user, pk>>, ShoppingCart)) :
                              d \in ds},
                    user, pks \ {pk}) : pk \in pks}

recipes_aggregate(user) == loop_cart({<<>>}, user, shopping_cart(user))

\* f'{name} ({unit}) <U+2014> {amount}'
FormatLine(item) ==
    item.name \o " (" \o item.unit \o ") " \o EM_DASH \o " "
        \o ToString(item.amount)

\* (mutant) every line ended by a newline, the last one too
RECURSIVE join_terminated(_)
join_terminated(lines) ==
    IF Len(lines) = 0 THEN ""
    ELSE FormatLine(lines[1]) \o "\n" \o join_terminated(Tail(lines))

\* '\n'.join(lines)
RECURSIVE join(_)
join(lines) ==
    IF Len(lines) = 0 THEN ""
    ELSE IF Len(lines) = 1 THEN FormatLine(lines[1])
    ELSE FormatLine(lines[1]) \o "\n" \o join(Tail(lines))

Listing(op, user, items) ==
    [op |-> op, user |-> user, status |-> HTTP_200_OK, queried |-> TRUE,
     lines |-> items, content |-> join(items), content_type |-> "text/plain",
     content_disposition |-> "attachment; filename=\"shopping_list.txt\""]

\* (mutant) the is_authenticated test left out: IsAuthenticatedOrReadOnly
\* lets a GET through
api_download_without_auth_check(user) ==
    /\ UNCHANGED <<store, pending>>
    /\ \E items \in order_by_name(api_annotate(user)) :
           response' = Listing("api_download", user, items)

\* (mutant) the cart emptied once its listing has been produced
api_download_clearing_cart(user) ==
    /\ UNCHANGED <<Ingredient, Recipe, RecipeIngredient, Favorite, Follow,
                   lastRecipeId, pending, Token>>
    /\ IF ~is_authenticated(user)
       THEN /\ response' = Reply("api_download", user, HTTP_401_UNAUTHORIZED)
            /\ UNCHANGED ShoppingCart
       ELSE /\ \E items \in order_by_name(api_annotate(user)) :
                   response' = Listing("api_download", user, items)
            /\ ShoppingCart' =
                   [e \in {x \in BagToSet(ShoppingCart) : x[1] # user} |->
                       ShoppingCart[e]]

\* (mutant) an error response when there is nothing to list
api_download_400_when_no_lines(user) ==
    /\ UNCHANGED <<store, pending>>
    /\ IF ~is_authenticated(user)
       THEN response' = Reply("api_download", user, HTTP_401_UNAUTHORIZED)
       ELSE IF api_annotate(user) = {}
       THEN response' = Reply("api_download", user, HTTP_400_BAD_REQUEST)
       ELSE \E items \in order_by_name(api_annotate(user)) :
                response' = Listing("api_download", user, items)

\* GET /api/recipes/download_shopping_cart/ (api/views.py)
api_download_shopping_cart(user) ==
    /\ UNCHANGED <<store, pending>>
    /\ IF ~is_authenticated(user)
       THEN response' = Reply("api_download", user, HTTP_401_UNAUTHORIZED)
       ELSE \E items \in order_by_name(api_annotate(user)) :
                response' = Listing("api_download", user, items)

\* GET download_shopping_cart of recipes/views.py
recipes_download_shopping_cart(user) ==
    /\ UNCHANGED <<store, pending>>
    /\ IF ~is_authenticated(user)
       THEN response' = Reply("recipes_download", user, HTTP_401_UNAUTHORIZED)
       ELSE \E items \in recipes_aggregate(user) :
                response' = Listing("recipes_download", user, items)

\* ------------------------------------------------------- specification
Next ==
    \/ \E user \in Authors \cup {AnonymousUser} : api_create(user)
    \/ \E user \in Callers, pk \in RecipeIds : api_update(user, pk)
    \/ \E user \in Callers, pk \in RecipeIds : destroy(user, pk)
    \/ \E user \in Callers, pk \in RecipeIds, method \in {"POST", "DELETE"} :
          api_shopping_cart(user, pk, method)
    \/ \E user \in Callers : api_download_shopping_cart(user)
    \/ \E user \in Callers : recipes_download_shopping_cart(user)

Spec == Init /\ [][Next]_vars


\* ------------------------------------- recipes application: recipe writes
\* RecipeIngredientWriteSerializer of recipes/serializers.py:
\* IntegerField(min_value=1), no max_value.
recipes_RecipeIngredientWriteSerializer(item) ==
    /\ item.id \in DOMAIN Ingredient
    /\ item.amount >= 1

\* RecipeCreateSerializer of recipes/serializers.py: ingredients_write and
\* image are required, an empty list passes, there is no validate().
recipes_RecipeCreateSerializer_is_valid(data) ==
    /\ data.has_ingredients
    /\ \A i \in 1..Len(data.ingredients) :
           recipes_RecipeIngredientWriteSerializer(data.ingredients[i])
    /\ data.has_image

\* RecipeUpdateSerializer of recipes/serializers.py: both fields optional.
recipes_RecipeUpdateSerializer_is_valid(data) ==
    data.has_ingredients =>
        \A i \in 1..Len(data.ingredients) :
            recipes_RecipeIngredientWriteSerializer(data.ingredients[i])

\* for item in ...: RecipeIngredient.objects.create(...), one INSERT per
\* item and no transaction around them: the first INSERT that breaks
\* unique_together raises IntegrityError and the rows before it stay.
RECURSIVE create_each(_, _, _)
create_each(rows, pk, items) ==
    IF Len(items) = 0 THEN [rows |-> rows, ok |-> TRUE]
    ELSE IF ~RecipeIngredient_insert_ok(rows, pk, Head(items).id)
    THEN [rows |-> rows, ok |-> FALSE]
    ELSE create_each(
             rows \cup {[recipe |-> pk, ingredient |-> Head(items).id,
                         amount |-> Head(items).amount]},
             pk, Tail(items))

\* POST of recipes/views.py RecipeViewSet (perform_create): the permission
\* class has no has_permission, so an anonymous request reaches
\* serializer.save(author=AnonymousUser), which raises.
recipes_create_with(user, data) ==
    /\ UNCHANGED <<Ingredient, ShoppingCart, Favorite, Follow, pending, Token>>
    /\ IF ~recipes_RecipeCreateSerializer_is_valid(data)
       THEN /\ response' = Reply("recipes_create", user, HTTP_400_BAD_REQUEST)
            /\ UNCHANGED <<Recipe, RecipeIngredient, lastRecipeId, Token>>
       ELSE IF ~is_authenticated(user)
       THEN /\ response' =
                   Reply("recipes_create", user, HTTP_500_INTERNAL_SERVER_ERROR)
            /\ UNCHANGED <<Recipe, RecipeIngredient, lastRecipeId, Token>>
       ELSE LET made == create_each(RecipeIngredient, lastRecipeId + 1,
                                    data.ingredients)
            IN  /\ lastRecipeId < MaxRecipes
                /\ lastRecipeId' = lastRecipeId + 1
                /\ Recipe' = (lastRecipeId' :> [author |-> user]) @@ Recipe
                /\ RecipeIngredient' = made.rows
                /\ response' =
                       Reply("recipes_create", user,
                             IF made.ok THEN HTTP_201_CREATED
                             ELSE HTTP_500_INTERNAL_SERVER_ERROR)

recipes_create(user) == \E data \in RecipeData : recipes_create_with(user, data)

\* PUT / PATCH of recipes/views.py RecipeViewSet (RecipeUpdateSerializer)
recipes_update_with(user, pk, data) ==
    /\ UNCHANGED <<Ingredient, Recipe, ShoppingCart, Favorite, Follow,
                   lastRecipeId, pending, Token>>
    /\ IF pk \notin DOMAIN Recipe
       THEN /\ response' = Reply("recipes_update", user, HTTP_404_NOT_FOUND)
            /\ UNCHANGED RecipeIngredient
       ELSE IF ~has_object_permission("PUT", user, pk)
       THEN /\ response' =
                   Reply("recipes_update", user,
                         IF is_authenticated(user) THEN HTTP_403_FORBIDDEN
                         ELSE HTTP_401_UNAUTHORIZED)
            /\ UNCHANGED RecipeIngredient
       ELSE IF ~recipes_RecipeUpdateSerializer_is_valid(data)
            THEN /\ response' = Reply("recipes_update", user, HTTP_400_BAD_REQUEST)
                 /\ UNCHANGED RecipeIngredient
            ELSE IF ~data.has_ingredients
            THEN /\ response' = Reply("recipes_update", user, HTTP_200_OK)
                 /\ UNCHANGED RecipeIngredient
            ELSE LET made == create_each(
                                 RecipeIngredient \ recipe_ingredients(pk),
                                 pk, data.ingredients)
                 IN  /\ RecipeIngredient' = made.rows
                     /\ response' =
                            Reply("recipes_update", user,
                                  IF made.ok THEN HTTP_200_OK
                                  ELSE HTTP_500_INTERNAL_SERVER_ERROR)

recipes_update(user, pk) ==
    \E data \in RecipeData : recipes_update_with(user, pk, data)

\* Recipe writes through either application, on one database.
NextWrites ==
    \/ \E user \in Authors \cup {AnonymousUser} : api_create(user)
    \/ \E user \in Callers, pk \in RecipeIds : api_update(user, pk)
    \/ \E user \in Authors \cup {AnonymousUser} : recipes_create(user)
    \/ \E user \in Callers, pk \in RecipeIds : recipes_update(user, pk)
    \/ \E user \in Callers, pk \in RecipeIds : destroy(user, pk)

SpecWrites == Init /\ [][NextWrites]_vars

\* ------------------------------------------ interleaved cart requests
\* Two POSTs to shopping_cart run in two workers; each is a SELECT (the
\* exists() test) and then an INSERT (create()), and the other worker may
\* run between the two.
shopping_cart_post_exists(p, user, pk) ==
    /\ pending[p] = Idle
    /\ UNCHANGED store
    /\ IF ~is_authenticated(user)
       THEN /\ response' = Reply("shopping_cart", user, HTTP_401_UNAUTHORIZED)
            /\ UNCHANGED pending
       ELSE IF pk \notin DOMAIN Recipe
       THEN /\ response' = Reply("shopping_cart", user, HTTP_404_NOT_FOUND)
            /\ UNCHANGED pending
       ELSE IF BagIn(<<user, pk>>, ShoppingCart)
       THEN /\ response' = Reply("shopping_cart", user, HTTP_400_BAD_REQUEST)
            /\ UNCHANGED pending
       ELSE /\ pending' =
                   [pending EXCEPT ![p] = [at |-> "create", user |-> user, pk |-> pk]]
            /\ response' = NoResponse

shopping_cart_post_create(p) ==
    /\ pending[p].at = "create"
    /\ pending' = [pending EXCEPT ![p] = Idle]
    /\ UNCHANGED <<Ingredient, Recipe, RecipeIngredient, Favorite, Follow,
                   lastRecipeId, Token>>
    /\ IF ShoppingCart_insert_ok(pending[p].user, pending[p].pk)
       THEN /\ ShoppingCart' =
                   ShoppingCart (+) SetToBag({<<pending[p].user, pending[p].pk>>})
            /\ response' =
                   Reply("shopping_cart", pending[p].user, HTTP_201_CREATED)
       ELSE /\ UNCHANGED ShoppingCart
            /\ response' = Reply("shopping_cart", pending[p].user,
                                 HTTP_500_INTERNAL_SERVER_ERROR)

\* A store with two recipes of u1, as the handlers above leave it.
InitRace ==
    /\ Ingredient = IngredientCatalog
    /\ Recipe = (1 :> [author |-> "u1"]) @@ (2 :> [author |-> "u1"])
    /\ RecipeIngredient =
           NewRows(1, <<Item(2, 1)>>) \cup
           NewRows(2, <<Item(2, 150), Item(1, 50), Item(3, 32000)>>)
    /\ ShoppingCart = EmptyBag
    /\ Favorite = EmptyBag
    /\ Follow = EmptyBag
    /\ Token = {}
    /\ lastRecipeId = 2
    /\ pending = [p \in Procs |-> Idle]
    /\ response = NoResponse

NextRace ==
    \/ \E p \in Procs, user \in Callers, pk \in RecipeIds :
          shopping_cart_post_exists(p, user, pk)
    \/ \E p \in Procs : shopping_cart_post_create(p)
    \/ \E user \in Users, pk \in RecipeIds :
          api_shopping_cart(user, pk, "DELETE")
    \/ \E user \in Authors, pk \in RecipeIds : destroy(user, pk)
    \/ \E user \in Users : api_download_shopping_cart(user)

SpecRace == InitRace /\ [][NextRace]_vars


\* ------------------------------ cart handlers of the recipes application
\* POST recipes/{pk}/shopping_cart/ (recipes/views.py add_to_shopping_cart)
add_to_shopping_cart(user, pk) ==
    /\ UNCHANGED <<Ingredient, Recipe, RecipeIngredient, Favorite, Follow,
                   lastRecipeId, pending, Token>>
    /\ IF ~is_authenticated(user)
       THEN /\ response' =
                   Reply("add_to_shopping_cart", user, HTTP_401_UNAUTHORIZED)
            /\ UNCHANGED ShoppingCart
       ELSE IF pk \notin DOMAIN Recipe
       THEN /\ response' =
                   Reply("add_to_shopping_cart", user, HTTP_404_NOT_FOUND)
            /\ UNCHANGED ShoppingCart
       ELSE IF BagIn(<<user, pk>>, ShoppingCart)
       THEN /\ response' =
                   Reply("add_to_shopping_cart", user, HTTP_400_BAD_REQUEST)
            /\ UNCHANGED ShoppingCart
       ELSE /\ ShoppingCart' = ShoppingCart (+) SetToBag({<<user, pk>>})
            /\ response' =
                   Reply("add_to_shopping_cart", user, HTTP_201_CREATED)

\* DELETE recipes/{pk}/remove-shopping-cart/ (remove_from_shopping_cart)
remove_from_shopping_cart(user, pk) ==
    /\ UNCHANGED <<Ingredient, Recipe, RecipeIngredient, Favorite, Follow,
                   lastRecipeId, pending, Token>>
    /\ IF ~is_authenticated(user)
       THEN /\ response' = Reply("remove_from_shopping_cart", user,
                                 HTTP_401_UNAUTHORIZED)
            /\ UNCHANGED ShoppingCart
       ELSE IF pk \notin DOMAIN Recipe
       THEN /\ response' = Reply("remove_from_shopping_cart", user,
                                 HTTP_404_NOT_FOUND)
            /\ UNCHANGED ShoppingCart
       ELSE IF ~BagIn(<<user, pk>>, ShoppingCart)
       THEN /\ response' = Reply("remove_from_shopping_cart", user,
                                 HTTP_400_BAD_REQUEST)
            /\ UNCHANGED ShoppingCart
       ELSE /\ ShoppingCart' = WithoutRow(ShoppingCart, <<user, pk>>)
            /\ response' = Reply("remove_from_shopping_cart", user,
                                 HTTP_204_NO_CONTENT)

\* The recipes application on its own: recipes written through its
\* serializers, put in carts and listed by its handlers.
NextRecipesApp ==
    \/ \E user \in Authors \cup {AnonymousUser} : recipes_create(user)
    \/ \E user \in Callers, pk \in RecipeIds : recipes_update(user, pk)
    \/ \E user \in Callers, pk \in RecipeIds : add_to_shopping_cart(user, pk)
    \/ \E user \in Callers, pk \in RecipeIds :
          remove_from_shopping_cart(user, pk)
    \/ \E user \in Callers : recipes_download_shopping_cart(user)

SpecRecipesApp == Init /\ [][NextRecipesApp]_vars


\* ------------------------------------------------------ favorite handler
\* (mutant) DELETE filters request.user.shopping_cart in place of favorites
favorite_deleting_from_cart(user, pk, method) ==
    /\ UNCHANGED <<Ingredient, Recipe, RecipeIngredient, Follow,
                   lastRecipeId, pending, Token>>
    /\ IF ~is_authenticated(user)
       THEN /\ response' = Reply("favorite", user, HTTP_401_UNAUTHORIZED)
            /\ UNCHANGED <<Favorite, ShoppingCart, Token>>
       ELSE IF pk \notin DOMAIN Recipe
       THEN /\ response' = Reply("favorite", user, HTTP_404_NOT_FOUND)
            /\ UNCHANGED <<Favorite, ShoppingCart, Token>>
       ELSE IF method = "POST"
       THEN IF BagIn(<<user, pk>>, Favorite)
            THEN /\ response' = Reply("favorite", user, HTTP_400_BAD_REQUEST)
                 /\ UNCHANGED <<Favorite, ShoppingCart, Token>>
            ELSE /\ Favorite' = Favorite (+) SetToBag({<<user, pk>>})
                 /\ UNCHANGED ShoppingCart
                 /\ response' = Reply("favorite", user, HTTP_201_CREATED)
       ELSE IF ~BagIn(<<user, pk>>, ShoppingCart)
            THEN /\ response' = Reply("favorite", user, HTTP_400_BAD_REQUEST)
                 /\ UNCHANGED <<Favorite, ShoppingCart, Token>>
            ELSE /\ ShoppingCart' = WithoutRow(ShoppingCart, <<user, pk>>)
                 /\ UNCHANGED Favorite
                 /\ response' = Reply("favorite", user, HTTP_204_NO_CONTENT)

\* POST / DELETE /api/recipes/{pk}/favorite/
favorite(user, pk, method) ==
    /\ UNCHANGED <<Ingredient, Recipe, RecipeIngredient, ShoppingCart, Follow,
                   lastRecipeId, pending, Token>>
    /\ IF ~is_authenticated(user)
       THEN /\ response' = Reply("favorite", user, HTTP_401_UNAUTHORIZED)
            /\ UNCHANGED Favorite
       ELSE IF pk \notin DOMAIN Recipe
       THEN /\ response' = Reply("favorite", user, HTTP_404_NOT_FOUND)
            /\ UNCHANGED Favorite
       ELSE IF method = "POST"
       THEN IF BagIn(<<user, pk>>, Favorite)
            THEN /\ response' = Reply("favorite", user, HTTP_400_BAD_REQUEST)
                 /\ UNCHANGED Favorite
            ELSE /\ Favorite' = Favorite (+) SetToBag({<<user, pk>>})
                 /\ response' = Reply("favorite", user, HTTP_201_CREATED)
       ELSE IF ~BagIn(<<user, pk>>, Favorite)
            THEN /\ response' = Reply("favorite", user, HTTP_400_BAD_REQUEST)
                 /\ UNCHANGED Favorite
            ELSE /\ Favorite' = WithoutRow(Favorite, <<user, pk>>)
                 /\ response' = Reply("favorite", user, HTTP_204_NO_CONTENT)

\* Carts and favorites over the two stored recipes of InitRace: the cart
\* handlers of both applications, the favorite handler, recipe deletion and
\* both downloads, each request run without interruption.
NextMembership ==
    \/ \E user \in Callers, pk \in RecipeIds, method \in {"POST", "DELETE"} :
          api_shopping_cart(user, pk, method)
    \/ \E user \in Callers, pk \in RecipeIds : add_to_shopping_cart(user, pk)
    \/ \E user \in Callers, pk \in RecipeIds :
          remove_from_shopping_cart(user, pk)
    \/ \E user \in Callers, pk \in RecipeIds, method \in {"POST", "DELETE"} :
          favorite(user, pk, method)
    \/ \E user \in Callers, pk \in RecipeIds : destroy(user, pk)
    \/ \E user \in Callers : api_download_shopping_cart(user)
    \/ \E user \in Callers : recipes_download_shopping_cart(user)

SpecMembership == InitRace /\ [][NextMembership]_vars


\* --------------------------------------- update interleaved with download
\* RecipeUpdateSerializer.update runs outside any transaction: the DELETE of
\* instance.recipe_ingredients.all().delete() is committed before the INSERT
\* of bulk_create, and another worker may run between the two.  The first
\* step is the request up to and including the DELETE.
update_delete_lines(p, user, pk) ==
    /\ pending[p] = Idle
    /\ UNCHANGED <<Ingredient, Recipe, ShoppingCart, Favorite, Follow,
                   lastRecipeId, Token>>
    /\ IF ~has_permission("PUT", user)
       THEN /\ response' = Reply("update", user, HTTP_401_UNAUTHORIZED)
            /\ UNCHANGED <<RecipeIngredient, pending, Token>>
       ELSE IF pk \notin DOMAIN Recipe
       THEN /\ response' = Reply("update", user, HTTP_404_NOT_FOUND)
            /\ UNCHANGED <<RecipeIngredient, pending, Token>>
       ELSE IF ~has_object_permission("PUT", user, pk)
       THEN /\ response' = Reply("update", user, HTTP_403_FORBIDDEN)
            /\ UNCHANGED <<RecipeIngredient, pending, Token>>
       ELSE \E method \in {"PUT", "PATCH"}, data \in RecipeData :
            IF ~api_RecipeUpdateSerializer_is_valid(method, data)
            THEN /\ response' = Reply("update", user, HTTP_400_BAD_REQUEST)
                 /\ UNCHANGED <<RecipeIngredient, pending, Token>>
            ELSE IF ~data.has_ingredients
            THEN /\ response' = Reply("update", user, HTTP_200_OK)
                 /\ UNCHANGED <<RecipeIngredient, pending, Token>>
            ELSE /\ RecipeIngredient' =
                        RecipeIngredient \ recipe_ingredients(pk)
                 /\ pending' =
                        [pending EXCEPT ![p] =
                            [at |-> "bulk_create", user |-> user, pk |-> pk,
                             items |-> data.ingredients,
                             deleted |-> recipe_ingredients(pk)]]
                 /\ response' = NoResponse

\* The second step: _create_recipe_ingredients, one INSERT of all rows,
\* refused as a whole when a row of another update is in the way.
update_bulk_create(p) ==
    /\ pending[p].at = "bulk_create"
    /\ pending' = [pending EXCEPT ![p] = Idle]
    /\ UNCHANGED <<Ingredient, Recipe, ShoppingCart, Favorite, Follow,
                   lastRecipeId, Token>>
    /\ IF \A i \in 1..Len(pending[p].items) :
              RecipeIngredient_insert_ok(RecipeIngredient, pending[p].pk,
                                         pending[p].items[i].id)
       THEN /\ RecipeIngredient' =
                   RecipeIngredient
                       \cup NewRows(pending[p].pk, pending[p].items)
            /\ response' = Reply("update", pending[p].user, HTTP_200_OK)
       ELSE /\ UNCHANGED RecipeIngredient
            /\ response' = Reply("update", pending[p].user,
                                 HTTP_500_INTERNAL_SERVER_ERROR)

\* Updates of the two stored recipes of InitRace by their author, in steps,
\* while u2 fills a cart and downloads.
NextUpdate ==
    \/ \E p \in Procs, user \in Callers, pk \in RecipeIds :
          update_delete_lines(p, user, pk)
    \/ \E p \in Procs : update_bulk_create(p)
    \/ \E pk \in RecipeIds, method \in {"POST", "DELETE"} :
          api_shopping_cart("u2", pk, method)
    \/ api_download_shopping_cart("u2")

SpecUpdate == InitRace /\ [][NextUpdate]_vars


\* ------------------------------------------------------- load_ingredients
\* The items of the JSON file; '' stands for a missing or empty value.
FileItem(name, unit) == [name |-> name, measurement_unit |-> unit]
FileItems ==
    {FileItem("flour", "g"), FileItem("flour", "kg"), FileItem("sugar", "kg"),
     FileItem("salt", "g"), FileItem("salt", "kg"), FileItem("salt", ""),
     FileItem("", "g")}
Files == {<<i>> : i \in FileItems} \cup {<<i, j>> : i, j \in FileItems}

\* Ingredient.objects.update_or_create(name=name, defaults={'measurement_unit':
\* measurement_unit}): the row is looked up by name alone.  No row: one is
\* created; one row: its measurement_unit is overwritten; several rows: get()
\* raises MultipleObjectsReturned, caught by 'except Exception'.
update_or_create(catalog, item) ==
    LET found == {id \in DOMAIN catalog : catalog[id].name = item.name}
    IN  IF item.name = "" \/ item.measurement_unit = "" THEN catalog
        ELSE IF found = {}
        THEN Append(catalog, FileItem(item.name, item.measurement_unit))
        ELSE IF Cardinality(found) = 1
        THEN [id \in DOMAIN catalog |->
                 IF id \in found
                 THEN [catalog[id] EXCEPT
                          !.measurement_unit = item.measurement_unit]
                 ELSE catalog[id]]
        ELSE catalog

\* for item in ingredients_data, from the first item on
RECURSIVE load_each(_, _)
load_each(catalog, file) ==
    IF Len(file) = 0 THEN catalog
    ELSE load_each(update_or_create(catalog, Head(file)), Tail(file))

\* manage.py load_ingredients --json_path file, inside transaction.atomic()
load_ingredients(file) ==
    /\ Ingredient' = load_each(Ingredient, file)
    /\ response' = Reply("load_ingredients", AnonymousUser, 0)
    /\ UNCHANGED <<Recipe, RecipeIngredient, ShoppingCart, Favorite, Follow,
                   lastRecipeId, pending, Token>>

\* A catalog with one row per name, and the one with flour in two units; one
\* recipe with a line of flour (row 2) in u2's cart.
InitLoad ==
    /\ Ingredient \in
           {<<FileItem("sugar", "g"), FileItem("flour", "g")>>,
            IngredientCatalog}
    /\ Recipe = (1 :> [author |-> "u1"])
    /\ RecipeIngredient = NewRows(1, <<Item(2, 1)>>)
    /\ ShoppingCart = SetToBag({<<"u2", 1>>})
    /\ Favorite = EmptyBag
    /\ Follow = EmptyBag
    /\ Token = {}
    /\ lastRecipeId = 1
    /\ pending = [p \in Procs |-> Idle]
    /\ response = NoResponse

NextLoad ==
    \/ \E file \in Files : load_ingredients(file)
    \/ \E method \in {"POST", "DELETE"} : api_shopping_cart("u2", 1, method)
    \/ api_download_shopping_cart("u2")

SpecLoad == InitLoad /\ [][NextLoad]_vars


\* ----------------------------------------------------------- subscriptions
\* The reverse relations of Follow on a user: Follow.user has
\* related_name='follower' and Follow.author has related_name='following'.
follower(user) == {row \in BagToSet(Follow) : row[1] = user}
following(user) == {row \in BagToSet(Follow) : row[2] = user}

\* the ids a request can name: the users and an id of no user
UserIds == Users \cup {"u0"}

\* (mutant) validate_author without the comparison with the requester
validate_author_allowing_self(user, value) ==
    ~(\E row \in follower(user) : row[2] = value)

\* FollowSerializer.validate_author: TRUE when no ValidationError is raised
validate_author(user, value) ==
    /\ user # value
    /\ ~(\E row \in follower(user) : row[2] = value)

\* POST / DELETE /api/users/{id}/subscribe/ (api SubscribeView)
subscribe(user, id, method) ==
    /\ UNCHANGED <<Ingredient, Recipe, RecipeIngredient, ShoppingCart,
                   Favorite, lastRecipeId, pending, Token>>
    /\ IF ~is_authenticated(user)
       THEN /\ response' = Reply("subscribe", user, HTTP_401_UNAUTHORIZED)
            /\ UNCHANGED Follow
       ELSE IF id \notin Users
       THEN /\ response' = Reply("subscribe", user, HTTP_404_NOT_FOUND)
            /\ UNCHANGED Follow
       ELSE IF method = "POST"
       THEN IF \E row \in follower(user) : row[2] = id
            THEN /\ response' = Reply("subscribe", user, HTTP_400_BAD_REQUEST)
                 /\ UNCHANGED Follow
            ELSE IF ~validate_author(user, id)
            THEN /\ response' = Reply("subscribe", user, HTTP_400_BAD_REQUEST)
                 /\ UNCHANGED Follow
            ELSE /\ Follow' = Follow (+) SetToBag({<<user, id>>})
                 /\ response' = Reply("subscribe", user, HTTP_201_CREATED)
       ELSE IF ~(\E row \in follower(user) : row[2] = id)
            THEN /\ response' = Reply("subscribe", user, HTTP_400_BAD_REQUEST)
                 /\ UNCHANGED Follow
            ELSE /\ Follow' = WithoutRow(Follow, <<user, id>>)
                 /\ response' = Reply("subscribe", user, HTTP_204_NO_CONTENT)

\* POST / DELETE on SubscribeView of the users application
users_subscribe(user, id, method) ==
    /\ UNCHANGED <<Ingredient, Recipe, RecipeIngredient, ShoppingCart,
                   Favorite, lastRecipeId, pending, Token>>
    /\ IF ~is_authenticated(user)
       THEN /\ response' =
                   Reply("users_subscribe", user, HTTP_401_UNAUTHORIZED)
            /\ UNCHANGED Follow
       ELSE IF id \notin Users
       THEN /\ response' = Reply("users_subscribe", user, HTTP_404_NOT_FOUND)
            /\ UNCHANGED Follow
       ELSE IF method = "POST"
       THEN IF id = user
            THEN /\ response' =
                        Reply("users_subscribe", user, HTTP_400_BAD_REQUEST)
                 /\ UNCHANGED Follow
            ELSE IF BagIn(<<user, id>>, Follow)
            THEN /\ response' =
                        Reply("users_subscribe", user, HTTP_400_BAD_REQUEST)
                 /\ UNCHANGED Follow
            ELSE /\ Follow' = Follow (+) SetToBag({<<user, id>>})
                 /\ response' =
                        Reply("users_subscribe", user, HTTP_201_CREATED)
       ELSE IF ~BagIn(<<user, id>>, Follow)
            THEN /\ response' =
                        Reply("users_subscribe", user, HTTP_400_BAD_REQUEST)
                 /\ UNCHANGED Follow
            ELSE /\ Follow' = WithoutRow(Follow, <<user, id>>)
                 /\ response' =
                        Reply("users_subscribe", user, HTTP_204_NO_CONTENT)

\* UserDetailSerializer.get_is_subscribed:
\* request.user.follower.filter(author=obj).exists()
UserDetailSerializer_get_is_subscribed(user, obj) ==
    IF ~is_authenticated(user) THEN FALSE
    ELSE \E row \in follower(user) : row[2] = obj

\* UserDetailSerializer(user, context={'request': request}).data
UserDetailSerializer(user, id) ==
    [id |-> id,
     is_subscribed |-> UserDetailSerializer_get_is_subscribed(user, id)]

\* ------------------------------------------------------------ recipe reads
\* SerializerMethodFields of RecipeSerializer and AuthorRecipeSerializer
\* AuthorRecipeSerializer.get_is_subscribed:
\* request.user.following.filter(author=obj).exists()
get_is_subscribed(user, author) ==
    IF ~is_authenticated(user) THEN FALSE
    ELSE \E row \in following(user) : row[2] = author

get_is_favorited(user, pk) ==
    IF ~is_authenticated(user) THEN FALSE
    ELSE BagIn(<<user, pk>>, Favorite)

\* (mutant) ShoppingCart.objects.filter(recipe=obj) in place of the
\* requester's own cart
get_is_in_shopping_cart_of_anyone(user, pk) ==
    IF ~is_authenticated(user) THEN FALSE
    ELSE \E u \in Users : BagIn(<<u, pk>>, ShoppingCart)

get_is_in_shopping_cart(user, pk) ==
    IF ~is_authenticated(user) THEN FALSE
    ELSE BagIn(<<user, pk>>, ShoppingCart)

\* RecipeSerializer(recipe, context={'request': request}).data
RecipeSerializer(user, pk) ==
    [id |-> pk,
     author |-> [id |-> Recipe[pk].author,
                 is_subscribed |-> get_is_subscribed(user, Recipe[pk].author)],
     is_favorited |-> get_is_favorited(user, pk),
     is_in_shopping_cart |-> get_is_in_shopping_cart(user, pk)]

\* a JSON response with a body
ReplyWith(op, user, status, data) ==
    [data |-> data] @@ Reply(op, user, status)

\* GET /api/recipes/{pk}/ (RecipeViewSet.retrieve)
retrieve(user, pk) ==
    /\ UNCHANGED <<store, pending>>
    /\ IF ~has_permission("GET", user)
       THEN response' = Reply("retrieve", user, HTTP_401_UNAUTHORIZED)
       ELSE IF pk \notin DOMAIN Recipe
       THEN response' = Reply("retrieve", user, HTTP_404_NOT_FOUND)
       ELSE IF ~has_object_permission("GET", user, pk)
       THEN response' = Reply("retrieve", user, HTTP_403_FORBIDDEN)
       ELSE response' = ReplyWith("retrieve", user, HTTP_200_OK,
                                  RecipeSerializer(user, pk))

\* the query parameters of GET /api/recipes/
Params(is_favorited, is_in_shopping_cart) ==
    [is_favorited |-> is_favorited,
     is_in_shopping_cart |-> is_in_shopping_cart]
QueryParams ==
    {Params(f, c) : f \in {"", "1"}, c \in {"", "0", "1", "true"}}

\* RecipeViewSet.get_queryset: the filters apply to authenticated users only
get_queryset(user, params) ==
    {pk \in DOMAIN Recipe :
        /\ (params.is_favorited \in TRUTHY /\ is_authenticated(user)) =>
               BagIn(<<user, pk>>, Favorite)
        /\ (params.is_in_shopping_cart \in TRUTHY /\ is_authenticated(user)) =>
               BagIn(<<user, pk>>, ShoppingCart)}

\* GET /api/recipes/?is_favorited=..&is_in_shopping_cart=.. (list)
list(user, params) ==
    /\ UNCHANGED <<store, pending>>
    /\ response' =
           ReplyWith("list", user, HTTP_200_OK,
                     {RecipeSerializer(user, pk) :
                         pk \in get_queryset(user, params)})

\* Reads of the two stored recipes of InitRace by every caller, between
\* cart, favorite and delete requests.
NextRead ==
    \/ \E user \in Callers, params \in QueryParams : list(user, params)
    \/ \E user \in Callers, pk \in RecipeIds : retrieve(user, pk)
    \/ \E user \in Callers, pk \in RecipeIds, method \in {"POST", "DELETE"} :
          api_shopping_cart(user, pk, method)
    \/ \E user \in Users, pk \in RecipeIds, method \in {"POST", "DELETE"} :
          favorite(user, pk, method)
    \/ \E user \in Authors, pk \in RecipeIds : destroy(user, pk)

SpecRead == InitRace /\ [][NextRead]_vars

\* --------------------------------------------- recipes and their authors
\* The two stored recipes of InitRace, changed and deleted through either
\* application by any caller, while the users fill carts and download.
NextAuthor ==
    \/ \E user \in Callers, pk \in RecipeIds : api_update(user, pk)
    \/ \E user \in Callers, pk \in RecipeIds : recipes_update(user, pk)
    \/ \E user \in Callers, pk \in RecipeIds : destroy(user, pk)
    \/ \E user \in Users, pk \in RecipeIds, method \in {"POST", "DELETE"} :
          api_shopping_cart(user, pk, method)
    \/ \E user \in Users : api_download_shopping_cart(user)
    \/ \E user \in Callers, pk \in RecipeIds : retrieve(user, pk)

SpecAuthor == InitRace /\ [][NextAuthor]_vars


\* ------------------------------------------------- subscriptions and reads
\* GET /api/users/{id}/ (UserDetailView): open to every caller
user_detail(user, id) ==
    /\ UNCHANGED <<store, pending>>
    /\ IF id \notin Users
       THEN response' = Reply("user_detail", user, HTTP_404_NOT_FOUND)
       ELSE response' = ReplyWith("user_detail", user, HTTP_200_OK,
                                  UserDetailSerializer(user, id))

\* Subscriptions through either application over the users of the model,
\* with reads of the stored recipes of InitRace and of the users between
\* them.
NextFollow ==
    \/ \E user \in Callers, id \in UserIds, method \in {"POST", "DELETE"} :
          subscribe(user, id, method)
    \/ \E user \in Callers, id \in UserIds, method \in {"POST", "DELETE"} :
          users_subscribe(user, id, method)
    \/ \E user \in Callers, pk \in RecipeIds : retrieve(user, pk)
    \/ \E user \in Callers, id \in UserIds : user_detail(user, id)

SpecFollow == InitRace /\ [][NextFollow]_vars

\* ------------------------------------------------------------------ tokens
\* The users log in with their e-mail (USERNAME_FIELD) and a password; the
\* model names a user's e-mail by the user.
None == "None"
Password == ("u1" :> "pw1") @@ ("u2" :> "pw2")
Credentials ==
    {[email |-> e, password |-> p] :
        e \in Users \cup {"u0", ""}, p \in {"pw1", "pw2", ""}}

\* django.contrib.auth.authenticate(username=email, password=password)
authenticate(email, password) ==
    IF email \in Users /\ Password[email] = password THEN email ELSE None

\* CustomAuthTokenSerializer.validate: the user of attrs['user'], or None
\* where a ValidationError is raised
validate(attrs) ==
    IF attrs.email # "" /\ attrs.password # ""
    THEN authenticate(attrs.email, attrs.password)
    ELSE None

\* the keys a new Token row can get: the key is the primary key of the row
Keys == {"k1", "k2", "k3"}
generate_key == Keys \ {t.key : t \in Token}

\* (mutant) Token.objects.create(user=user) in place of get_or_create
get_or_create_always_create(rows, user, key) ==
    rows \cup {[user |-> user, key |-> key]}

\* Token.objects.get_or_create(user=user): the rows afterwards
get_or_create(rows, user, key) ==
    IF \E t \in rows : t.user = user
    THEN rows
    ELSE rows \cup {[user |-> user, key |-> key]}

\* POST /api/auth/token/login/ (api CustomAuthToken.post)
login(data) ==
    /\ UNCHANGED <<Ingredient, Recipe, RecipeIngredient, ShoppingCart,
                   Favorite, Follow, lastRecipeId, pending>>
    /\ IF validate(data) = None
       THEN /\ response' =
                   Reply("login", AnonymousUser, HTTP_400_BAD_REQUEST)
            /\ UNCHANGED Token
       ELSE \E key \in generate_key :
              /\ Token' = get_or_create(Token, validate(data), key)
              /\ response' =
                     ReplyWith("login", AnonymousUser, HTTP_200_OK,
                               [auth_token |->
                                   (CHOOSE t \in Token' :
                                       t.user = validate(data)).key])

\* POST /api/auth/token/logout/ (api LogoutView.post)
logout(user) ==
    /\ UNCHANGED <<Ingredient, Recipe, RecipeIngredient, ShoppingCart,
                   Favorite, Follow, lastRecipeId, pending>>
    /\ IF ~is_authenticated(user)
       THEN /\ response' = Reply("logout", user, HTTP_401_UNAUTHORIZED)
            /\ UNCHANGED Token
       ELSE IF ~(\E t \in Token : t.user = user)
       THEN /\ response' = Reply("logout", user, HTTP_400_BAD_REQUEST)
            /\ UNCHANGED Token
       ELSE /\ Token' = {t \in Token : t.user # user}
            /\ response' = Reply("logout", user, HTTP_204_NO_CONTENT)

\* POST auth/token/login/ of the users application
users_login(data) ==
    /\ UNCHANGED <<Ingredient, Recipe, RecipeIngredient, ShoppingCart,
                   Favorite, Follow, lastRecipeId, pending>>
    /\ IF validate(data) = None
       THEN /\ response' =
                   Reply("users_login", AnonymousUser, HTTP_400_BAD_REQUEST)
            /\ UNCHANGED Token
       ELSE \E key \in generate_key :
              /\ Token' = get_or_create(Token, validate(data), key)
              /\ response' =
                     ReplyWith("users_login", AnonymousUser, HTTP_200_OK,
                               [auth_token |->
                                   (CHOOSE t \in Token' :
                                       t.user = validate(data)).key])

\* LogoutView.post of the users application
users_logout(user) ==
    /\ UNCHANGED <<Ingredient, Recipe, RecipeIngredient, ShoppingCart,
                   Favorite, Follow, lastRecipeId, pending>>
    /\ IF ~is_authenticated(user)
       THEN /\ response' = Reply("users_logout", user, HTTP_401_UNAUTHORIZED)
            /\ UNCHANGED Token
       ELSE IF ~(\E t \in Token : t.user = user)
       THEN /\ response' = Reply("users_logout", user, HTTP_400_BAD_REQUEST)
            /\ UNCHANGED Token
       ELSE /\ Token' = {t \in Token : t.user # user}
            /\ response' = Reply("users_logout", user, HTTP_200_OK)

\* Logins and logouts of the users through either application.
NextToken ==
    \/ \E data \in Credentials : login(data)
    \/ \E user \in Callers : logout(user)
    \/ \E data \in Credentials : users_login(data)
    \/ \E user \in Callers : users_logout(user)

SpecToken == InitRace /\ [][NextToken]_vars

\* ================================================================ claims
\* What the claims say about a listing, stated on the stored rows alone.
DownloadOps == {"api_download", "recipes_download"}
IsDownload == response.op \in DownloadOps
IsListing == IsDownload /\ response.status = HTTP_200_OK

PairOf(l) ==
    <<Ingredient[l.ingredient].name, Ingredient[l.ingredient].measurement_unit>>
CartRecipes(user) ==
    {pk \in DOMAIN Recipe : CopiesIn(<<user, pk>>, ShoppingCart) >= 1}
CartLines(user) == {l \in RecipeIngredient : l.recipe \in CartRecipes(user)}

RECURSIVE AmountsOf(_)
AmountsOf(ls) ==
    IF ls = {} THEN 0
    ELSE LET l == CHOOSE x \in ls : TRUE IN l.amount + AmountsOf(ls \ {l})

ExpectedTotal(user, pair) ==
    AmountsOf({l \in CartLines(user) : PairOf(l) = pair})

LinesFor(pair) ==
    {i \in 1..Len(response.lines) :
        response.lines[i].name = pair[1] /\ response.lines[i].unit = pair[2]}

RECURSIVE TotalsOf(_)
TotalsOf(items) ==
    IF Len(items) = 0 THEN 0 ELSE Head(items).amount + TotalsOf(Tail(items))

\* C1: a listing has exactly one line for every (name, unit) pair that
\* occurs in a line of a recipe in the caller's cart, the line's total is
\* the sum of the amounts of all such lines over the cart's recipes, and
\* there is no line for a pair that occurs in no cart recipe.
C1_OneSummedLinePerPair ==
    IsListing =>
        /\ \A l \in CartLines(response.user) :
               /\ Cardinality(LinesFor(PairOf(l))) = 1
               /\ \A i \in LinesFor(PairOf(l)) :
                      response.lines[i].amount =
                          ExpectedTotal(response.user, PairOf(l))
        /\ \A i \in 1..Len(response.lines) :
               \E l \in CartLines(response.user) :
                   PairOf(l) = <<response.lines[i].name, response.lines[i].unit>>

\* two different cart recipes share an ingredient and the listing is out
C1_Witness ==
    /\ IsListing
    /\ \E l1, l2 \in CartLines(response.user) :
           /\ l1.recipe # l2.recipe
           /\ PairOf(l1) = PairOf(l2)
           /\ \E i \in LinesFor(PairOf(l1)) :
                  response.lines[i].amount = l1.amount + l2.amount

\* C2: the lines of a listing are sorted by ingredient name ascending.
C2_SortedByName ==
    IsListing =>
        \A i \in 1..(Len(response.lines) - 1) :
            StrLeq(response.lines[i].name, response.lines[i + 1].name)

\* C3: a download by an authenticated user whose cart has no entries
\* succeeds and its body is the empty string.
C3_EmptyCartEmptyBody ==
    (IsDownload /\ is_authenticated(response.user)
        /\ CartRecipes(response.user) = {}) =>
        /\ response.status = HTTP_200_OK
        /\ response.lines = <<>>
        /\ response.content = ""

\* the caller's cart is empty while another user's cart has lines
C3_Witness ==
    /\ IsListing
    /\ CartRecipes(response.user) = {}
    /\ response.content = ""
    /\ \E other \in Users : CartLines(other) # {}

\* C4: a download by an unauthenticated caller is answered 401, the
\* aggregation query is not run and no listing is returned.
C4_Unauthenticated401 ==
    (IsDownload /\ ~is_authenticated(response.user)) =>
        /\ response.status = HTTP_401_UNAUTHORIZED
        /\ ~response.queried
        /\ response.lines = <<>>
        /\ response.content_type # "text/plain"

C4_Witness ==
    /\ IsDownload
    /\ response.user = AnonymousUser
    /\ response.status = HTTP_401_UNAUTHORIZED
    /\ \E user \in Users : CartLines(user) # {}

\* C5: a download, by any caller, changes no stored row: the step that
\* leaves a download's response leaves every table as it was.
C5_PureRead ==
    [][response'.op \in DownloadOps => UNCHANGED store]_vars

\* a listing was returned from a store that has rows to change
C5_Witness ==
    /\ IsListing
    /\ Len(response.lines) >= 1
    /\ \E user \in Users : CartRecipes(user) # {} /\ user # response.user

\* C6: lines of the same name and different units are not merged: each
\* (name, unit) pair has its own line with the sum of its own amounts.
C6_UnitsKeptApart ==
    IsListing =>
        \A l1, l2 \in CartLines(response.user) :
            (PairOf(l1)[1] = PairOf(l2)[1] /\ PairOf(l1)[2] # PairOf(l2)[2]) =>
                \E i, j \in 1..Len(response.lines) :
                    /\ i # j
                    /\ i \in LinesFor(PairOf(l1))
                    /\ j \in LinesFor(PairOf(l2))
                    /\ response.lines[i].amount =
                           ExpectedTotal(response.user, PairOf(l1))
                    /\ response.lines[j].amount =
                           ExpectedTotal(response.user, PairOf(l2))

C6_Witness ==
    /\ IsListing
    /\ \E i, j \in 1..Len(response.lines) :
           /\ response.lines[i].name = response.lines[j].name
           /\ response.lines[i].unit # response.lines[j].unit
           /\ response.lines[i].amount # response.lines[j].amount

\* C7: a second download by the same user, with no change of the store in
\* between, returns the same body as the first, line order included.
C7_SameBodyTwice ==
    [][(/\ IsListing
        /\ response.op = "api_download"
        /\ response'.op = response.op
        /\ response'.user = response.user
        /\ response'.status = HTTP_200_OK)
       => response'.content = response.content]_vars

\* C8: a cart recipe without ingredient lines adds no line and changes no
\* total; a cart of such recipes alone yields the empty string.
C8_ZeroLineRecipe ==
    /\ (IsDownload /\ is_authenticated(response.user)
          /\ CartLines(response.user) = {}) =>
           (response.status = HTTP_200_OK /\ response.content = "")
    /\ IsListing =>
           /\ Len(response.lines) =
                  Cardinality({PairOf(l) : l \in CartLines(response.user)})
           /\ TotalsOf(response.lines) = AmountsOf(CartLines(response.user))

C8_Witness ==
    /\ IsListing
    /\ CartRecipes(response.user) # {}
    /\ \A pk \in CartRecipes(response.user) : recipe_ingredients(pk) = {}
    /\ response.content = ""


\* C9: there is at most one cart row per (user, recipe), also when two
\* adds of the same pair both pass the exists() test before either
\* creates its row; so no listing counts a recipe's amounts twice.
C9_OneCartRowPerPair ==
    /\ \A user \in Users, pk \in RecipeIds :
           CopiesIn(<<user, pk>>, ShoppingCart) <= 1
    /\ IsListing =>
           \A i \in 1..Len(response.lines) :
               response.lines[i].amount =
                   ExpectedTotal(response.user,
                       <<response.lines[i].name, response.lines[i].unit>>)

\* both workers passed exists() for one pair, one has created its row and
\* the other is about to
C9_Witness ==
    \E p \in Procs :
        /\ pending[p].at = "create"
        /\ BagIn(<<pending[p].user, pending[p].pk>>, ShoppingCart)


\* C10: every stored ingredient line has 1 <= amount <= 32000, and a
\* recipe create or update that was accepted stored no amount outside
\* that range.
C10_AmountsInRange ==
    \A l \in RecipeIngredient :
        /\ l.amount >= MIN_INGREDIENT_AMOUNT
        /\ l.amount <= MAX_INGREDIENT_AMOUNT


\* C11: every total printed in a listing is a positive whole number, the
\* exact sum of the contributing lines: with k lines of the caller's cart
\* behind a printed pair, k <= total <= MAX_INGREDIENT_AMOUNT * k.
ContributingLines(user, pair) ==
    {l \in CartLines(user) : PairOf(l) = pair}
C11_TotalsWithinBounds ==
    IsListing =>
        \A i \in 1..Len(response.lines) :
            LET item == response.lines[i]
                k == Cardinality(
                         ContributingLines(response.user,
                                           <<item.name, item.unit>>))
            IN  /\ item.amount \in Nat \ {0}
                /\ item.amount =
                       ExpectedTotal(response.user, <<item.name, item.unit>>)
                /\ k <= item.amount
                /\ item.amount <= MAX_INGREDIENT_AMOUNT * k


\* C12: no recipe ever has two lines for one ingredient, and a create or
\* update whose payload repeats an ingredient id is rejected with a
\* validation error (400) and leaves the recipes and their lines as stored.
RepeatingPayloads ==
    {data \in RecipeData :
        data.has_ingredients /\ ~no_repeats(data.ingredients)}
OneLinePerIngredient(rows) ==
    \A l1, l2 \in rows :
        (l1.recipe = l2.recipe /\ l1.ingredient = l2.ingredient) => l1 = l2
C12_RepeatsRejected ==
    [][ /\ OneLinePerIngredient(RecipeIngredient')
        /\ \A user \in Users, data \in RepeatingPayloads :
              /\ recipes_create_with(user, data) =>
                     /\ response'.status = HTTP_400_BAD_REQUEST
                     /\ UNCHANGED <<Recipe, RecipeIngredient>>
              /\ \A pk \in DOMAIN Recipe :
                     (Recipe[pk].author = user
                         /\ recipes_update_with(user, pk, data)) =>
                         /\ response'.status = HTTP_400_BAD_REQUEST
                         /\ UNCHANGED <<Recipe, RecipeIngredient>> ]_vars


\* C13: deleting a recipe deletes every cart entry, favorite and ingredient
\* line that references it: in every state each of these rows references a
\* stored recipe, and a listing holds no amount of a deleted recipe (every
\* printed total is the sum over the lines of stored recipes in the cart).
C13_DeletionCascades ==
    /\ \A e \in BagToSet(ShoppingCart) : e[2] \in DOMAIN Recipe
    /\ \A e \in BagToSet(Favorite) : e[2] \in DOMAIN Recipe
    /\ \A l \in RecipeIngredient : l.recipe \in DOMAIN Recipe
    /\ IsListing =>
           \A i \in 1..Len(response.lines) :
               LET item == response.lines[i]
                   stored == {l \in RecipeIngredient :
                                 /\ l.recipe \in DOMAIN Recipe
                                 /\ BagIn(<<response.user, l.recipe>>,
                                          ShoppingCart)
                                 /\ PairOf(l) = <<item.name, item.unit>>}
               IN  stored # {} /\ item.amount = AmountsOf(stored)

\* a recipe was deleted while the other one stays in a cart and a favorite
C13_Witness ==
    /\ response.op = "destroy"
    /\ response.status = HTTP_204_NO_CONTENT
    /\ Cardinality(DOMAIN Recipe) = 1
    /\ ShoppingCart # EmptyBag
    /\ Favorite # EmptyBag


\* C14: a successful POST to shopping_cart for recipe r by user u adds
\* exactly the entry (u, r), after which every line of r is counted in u's
\* list; a successful DELETE removes exactly that entry; so a POST followed
\* by a DELETE of the same recipe gives back the cart, and with it the list,
\* of before.  Both applications' handlers.
CartPost(user, pk) ==
    api_shopping_cart(user, pk, "POST") \/ add_to_shopping_cart(user, pk)
CartDelete(user, pk) ==
    api_shopping_cart(user, pk, "DELETE") \/ remove_from_shopping_cart(user, pk)
OneRow(e) == SetToBag({e})
C14_CartLifecycle ==
    [][ \A user \in Users, pk \in RecipeIds :
        /\ (CartPost(user, pk) /\ response'.status = HTTP_201_CREATED) =>
              /\ CopiesIn(<<user, pk>>, ShoppingCart) = 0
              /\ ShoppingCart' = ShoppingCart (+) OneRow(<<user, pk>>)
              /\ UNCHANGED <<Recipe, RecipeIngredient, Ingredient>>
              /\ \A l \in RecipeIngredient' :
                    l.recipe = pk =>
                        \E item \in api_annotate(user)' :
                            /\ <<item.name, item.unit>> = PairOf(l)'
                            /\ item.amount >= l.amount
        /\ (CartDelete(user, pk) /\ response'.status = HTTP_204_NO_CONTENT) =>
              /\ CopiesIn(<<user, pk>>, ShoppingCart') = 0
              /\ ShoppingCart = ShoppingCart' (+) OneRow(<<user, pk>>)
              /\ UNCHANGED <<Recipe, RecipeIngredient, Ingredient>> ]_vars

\* u2 has taken recipe 2 out of a cart that still holds recipe 1
C14_Witness ==
    /\ response.op \in {"shopping_cart", "remove_from_shopping_cart"}
    /\ response.status = HTTP_204_NO_CONTENT
    /\ response.user = "u2"
    /\ CopiesIn(<<"u2", 1>>, ShoppingCart) = 1
    /\ CopiesIn(<<"u2", 2>>, ShoppingCart) = 0


\* C15: what user A can download from the api depends on A's cart entries
\* and on the lines of the recipes in A's cart only: a cart add or remove, a
\* favorite add or remove or a download by another caller leaves the groups
\* and totals that A's download prints unchanged, and so does every step
\* that leaves A's cart entries and the lines of A's cart recipes as they
\* were.
MembershipOps ==
    {"shopping_cart", "add_to_shopping_cart", "remove_from_shopping_cart",
     "favorite"}
Groups(user) == api_annotate(user)
CartRowsOf(user) == {e \in BagToSet(ShoppingCart) : e[1] = user}
C15_UsersIndependent ==
    [][ \A A \in Users :
        ( \/ /\ response'.user # A
             /\ response'.op \in MembershipOps \cup DownloadOps
          \/ /\ CartRowsOf(A)' = CartRowsOf(A)
             /\ CartLines(A)' = CartLines(A)
             /\ UNCHANGED Ingredient ) =>
            Groups(A)' = Groups(A) ]_vars

\* u2 has put a recipe in the cart while u1's cart holds one
C15_Witness ==
    /\ response.user = "u2"
    /\ response.op \in {"shopping_cart", "add_to_shopping_cart"}
    /\ response.status = HTTP_201_CREATED
    /\ CartLines("u1") # {}


\* C20: the cart toggle refuses without effect: a POST for a recipe already
\* in the caller's cart and a DELETE for a stored recipe not in the caller's
\* cart are answered 400, a request without authentication 401, and in each
\* case the cart entries stay as they were.  Both applications' handlers.
C20_RefusedToggleKeepsCart ==
    [][ \A user \in Callers, pk \in RecipeIds :
        /\ (CartPost(user, pk) /\ user \in Users
                /\ CopiesIn(<<user, pk>>, ShoppingCart) >= 1) =>
               /\ response'.status = HTTP_400_BAD_REQUEST
               /\ UNCHANGED ShoppingCart
        /\ (CartDelete(user, pk) /\ user \in Users /\ pk \in DOMAIN Recipe
                /\ CopiesIn(<<user, pk>>, ShoppingCart) = 0) =>
               /\ response'.status = HTTP_400_BAD_REQUEST
               /\ UNCHANGED ShoppingCart
        /\ ((CartPost(user, pk) \/ CartDelete(user, pk))
                /\ user = AnonymousUser) =>
               /\ response'.status = HTTP_401_UNAUTHORIZED
               /\ UNCHANGED ShoppingCart ]_vars

\* a second POST for a recipe in the cart was refused, the entry still there
C20_Witness ==
    /\ response.op \in {"shopping_cart", "add_to_shopping_cart",
                        "remove_from_shopping_cart"}
    /\ response.status = HTTP_400_BAD_REQUEST
    /\ response.user \in Users
    /\ CartRowsOf(response.user) # {}


\* C19: on every store that keeps (name, unit) unique among ingredients and
\* (recipe, ingredient) unique among lines, the GROUP BY of api/views.py and
\* the dict loop of recipes/views.py give the same set of (name, unit,
\* total) triples for every user, which is also the set obtained by
\* grouping the cart's lines by ingredient row.
CatalogUnique ==
    \A i, j \in DOMAIN Ingredient : Ingredient[i] = Ingredient[j] => i = j
ByIngredientRow(user) ==
    {[name |-> Ingredient[i].name, unit |-> Ingredient[i].measurement_unit,
      amount |-> AmountsOf({l \in CartLines(user) : l.ingredient = i})] :
        i \in {l.ingredient : l \in CartLines(user)}}
Triples(s) == {s[i] : i \in 1..Len(s)}
C19_AggregatorsAgree ==
    (CatalogUnique /\ OneLinePerIngredient(RecipeIngredient)) =>
        \A user \in Users :
            /\ api_annotate(user) = ByIngredientRow(user)
            /\ \A d \in recipes_aggregate(user) :
                   Triples(d) = api_annotate(user)

\* a listing of the dict loop with a total summed over two recipes
C19_Witness ==
    /\ IsListing
    /\ response.op = "recipes_download"
    /\ \E i \in 1..Len(response.lines) :
          Cardinality(ContributingLines(
              response.user,
              <<response.lines[i].name, response.lines[i].unit>>)) >= 2


\* C18: a download by an authenticated user is answered 200 with content
\* type text/plain and Content-Disposition attachment, file name
\* shopping_list.txt; the body is one line 'name (unit) <U+2014> total' per
\* (name, unit) group of the cart, the lines separated by single newlines,
\* with no newline after the last.
ExpectedLine(item) ==
    item.name \o " (" \o item.unit \o ") -- " \o ToString(item.amount)
RECURSIVE ExpectedBody(_, _)
ExpectedBody(s, n) ==
    IF n = 0 THEN ""
    ELSE IF n = 1 THEN ExpectedLine(s[1])
    ELSE ExpectedBody(s, n - 1) \o "\n" \o ExpectedLine(s[n])
C18_ResponseFormat ==
    (IsDownload /\ response.user \in Users) =>
        /\ response.status = HTTP_200_OK
        /\ response.content_type = "text/plain"
        /\ response.content_disposition =
               "attachment; filename=\"shopping_list.txt\""
        /\ Len(response.lines) =
               Cardinality({PairOf(l) : l \in CartLines(response.user)})
        /\ response.content = ExpectedBody(response.lines, Len(response.lines))

\* a body of three lines
C18_Witness ==
    /\ IsListing
    /\ Len(response.lines) = 3


\* C16: a download that runs while the author's update of a recipe in the
\* caller's cart is under way (its lines deleted, the new ones not yet
\* created) lists either the lines of before the update or those of after
\* it, never a store in which the recipe has none or only some of them.
TriplesOf(rows, user) ==
    LET mine == {l \in rows : l.recipe \in CartRecipes(user)}
    IN  {[name |-> k[1], unit |-> k[2],
          amount |-> AmountsOf({l \in mine : PairOf(l) = k})] :
            k \in {PairOf(l) : l \in mine}}
OtherLines(pk) == {l \in RecipeIngredient : l.recipe # pk}
C16_SnapshotConsistent ==
    (IsListing /\ response.op = "api_download") =>
        \A p \in Procs :
            (pending[p].at = "bulk_create"
                /\ pending[p].pk \in CartRecipes(response.user)) =>
                \/ Triples(response.lines) =
                       TriplesOf(OtherLines(pending[p].pk)
                                     \cup pending[p].deleted,
                                 response.user)
                \/ Triples(response.lines) =
                       TriplesOf(OtherLines(pending[p].pk)
                                     \cup NewRows(pending[p].pk,
                                                  pending[p].items),
                                 response.user)


\* C17: after a run of load_ingredients every item of the file with a
\* non-empty name and unit is stored as an Ingredient with exactly that
\* (name, unit), no two Ingredient rows share a (name, unit), and no
\* Ingredient that existed before the run has another measurement_unit.
C17_LoadKeepsCatalog ==
    [][ \A file \in Files :
        load_ingredients(file) =>
            /\ \A i \in 1..Len(file) :
                  (file[i].name # "" /\ file[i].measurement_unit # "") =>
                      \E id \in DOMAIN Ingredient' :
                          Ingredient'[id] = file[i]
            /\ \A i, j \in DOMAIN Ingredient' :
                  Ingredient'[i] = Ingredient'[j] => i = j
            /\ \A id \in DOMAIN Ingredient :
                  Ingredient'[id].measurement_unit =
                      Ingredient[id].measurement_unit ]_vars


\* C21: a successful update of a recipe with an ingredient list L replaces
\* its lines wholesale: afterwards the recipe's lines are exactly those of L,
\* the lines of every other recipe are as before, and the totals of every
\* user's shopping list are those computed with L for that recipe.  Both
\* applications' update.
C21_UpdateReplacesLines ==
    [][ (response'.op \in {"update", "recipes_update"}
            /\ response'.status = HTTP_200_OK) =>
        \A pk \in DOMAIN Recipe, data \in RecipeData :
        (/\ data.has_ingredients
         /\ \/ /\ response'.op = "update"
               /\ \E method \in {"PUT", "PATCH"} :
                     api_update_apply(Recipe[pk].author, pk, method, data)
            \/ /\ response'.op = "recipes_update"
               /\ recipes_update_with(Recipe[pk].author, pk, data)) =>
            /\ {l \in RecipeIngredient' : l.recipe = pk} =
                   {[recipe |-> pk, ingredient |-> data.ingredients[i].id,
                     amount |-> data.ingredients[i].amount] :
                        i \in 1..Len(data.ingredients)}
            /\ OtherLines(pk)' = OtherLines(pk)
            /\ \A user \in Users :
                   api_annotate(user)' =
                       TriplesOf(OtherLines(pk)
                                     \cup NewRows(pk, data.ingredients),
                                 user) ]_vars

\* recipe 1, in u2's cart, has been given the three lines of the long list
C21_Witness ==
    /\ response.op \in {"update", "recipes_update"}
    /\ response.status = HTTP_200_OK
    /\ CopiesIn(<<"u2", 1>>, ShoppingCart) = 1
    /\ Cardinality({l \in RecipeIngredient : l.recipe = 1}) = 3


\* C22: only the author changes a recipe: an update, partial update or
\* delete of recipe r requested by anyone else, an unauthenticated caller
\* included, is refused (401 or 403) and leaves r, its lines and every cart
\* entry and favorite as they were; a read of r by the same caller is
\* answered 200.  Both applications' permission class.
C22_OnlyAuthorWrites ==
    [][ \A v \in Callers, pk \in DOMAIN Recipe :
        Recipe[pk].author # v =>
            /\ (/\ response'.user = v
                /\ response'.op \in {"update", "recipes_update", "destroy"}
                /\ \/ api_update(v, pk)
                   \/ recipes_update(v, pk)
                   \/ destroy(v, pk)) =>
                   /\ response'.status \in
                          {HTTP_401_UNAUTHORIZED, HTTP_403_FORBIDDEN}
                   /\ UNCHANGED <<Recipe, RecipeIngredient, ShoppingCart,
                                  Favorite>>
            /\ (response'.op = "retrieve" /\ retrieve(v, pk)) =>
                   /\ response'.status = HTTP_200_OK
                   /\ response'.data.id = pk ]_vars

\* u2 was refused a change of u1's recipe 1, which sits in u2's cart
C22_Witness ==
    /\ response.op \in {"update", "recipes_update", "destroy"}
    /\ response.user = "u2"
    /\ response.status = HTTP_403_FORBIDDEN
    /\ 1 \in DOMAIN Recipe
    /\ CopiesIn(<<"u2", 1>>, ShoppingCart) = 1


\* C23: the image of a recipe update is optional: a PATCH by the author with
\* a valid, non-empty, non-repeating ingredients list and no image is
\* accepted (200) and its lines applied; a PATCH without ingredients or with
\* an empty list is rejected with a validation error (400) and changes
\* nothing.
C23_PatchWithoutImage ==
    [][ response'.op = "update" =>
        \A pk \in DOMAIN Recipe, data \in RecipeData :
            api_update_apply(Recipe[pk].author, pk, "PATCH", data) =>
                /\ (data.has_ingredients /\ data.ingredients \in ValidLists
                        /\ ~data.has_image) =>
                       /\ response'.status = HTTP_200_OK
                       /\ recipe_ingredients(pk)' =
                              NewRows(pk, data.ingredients)
                /\ (~data.has_ingredients \/ data.ingredients = <<>>) =>
                       /\ response'.status = HTTP_400_BAD_REQUEST
                       /\ UNCHANGED RecipeIngredient ]_vars


\* C24: favorites and carts are independent: a favorite request leaves every
\* cart entry and every user's shopping list unchanged, a cart request
\* leaves every favorite unchanged; there is at most one favorite per (user,
\* recipe), and a duplicate add or a remove of an absent favorite is
\* answered 400 without any change.
C24_FavoriteCartIndependent ==
    [][ /\ response'.op = "favorite" =>
               /\ UNCHANGED ShoppingCart
               /\ \A user \in Users : api_annotate(user)' = api_annotate(user)
        /\ response'.op \in {"shopping_cart", "add_to_shopping_cart",
                             "remove_from_shopping_cart"} =>
               UNCHANGED Favorite
        /\ \A e \in BagToSet(Favorite') : CopiesIn(e, Favorite') = 1
        /\ response'.op = "favorite" =>
               \A user \in Users, pk \in DOMAIN Recipe :
                   /\ (favorite(user, pk, "POST")
                          /\ CopiesIn(<<user, pk>>, Favorite) >= 1) =>
                          /\ response'.status = HTTP_400_BAD_REQUEST
                          /\ UNCHANGED Favorite
                   /\ (favorite(user, pk, "DELETE")
                          /\ CopiesIn(<<user, pk>>, Favorite) = 0) =>
                          /\ response'.status = HTTP_400_BAD_REQUEST
                          /\ UNCHANGED Favorite ]_vars

\* u2 has removed a favorite while recipes stay in u2's cart
C24_Witness ==
    /\ response.op = "favorite"
    /\ response.status = HTTP_204_NO_CONTENT
    /\ response.user = "u2"
    /\ CartRowsOf("u2") # {}


\* C25: the cart flag and the cart filter follow cart membership: a recipe
\* serialized for an authenticated user has is_in_shopping_cart = true
\* exactly when the user's cart holds it, the list filtered with a truthy
\* is_in_shopping_cart is exactly the set of recipes in the user's cart (the
\* set the shopping list is computed from), and for an unauthenticated
\* caller the flag is false and the filter ignored.
InCart(user, pk) == user \in Users /\ CopiesIn(<<user, pk>>, ShoppingCart) >= 1
IdsOf(results) == {r.id : r \in results}
C25_CartFlagAndFilter ==
    [][ /\ (response'.op = "retrieve" /\ response'.status = HTTP_200_OK) =>
               response'.data.is_in_shopping_cart =
                   InCart(response'.user, response'.data.id)
        /\ response'.op = "list" =>
               /\ \A r \in response'.data :
                      r.is_in_shopping_cart = InCart(response'.user, r.id)
               /\ \A user \in Callers, c \in {"", "0", "1", "true"} :
                      list(user, Params("", c)) =>
                          IdsOf(response'.data) =
                              IF user \in Users /\ c \in {"1", "true"}
                              THEN CartRecipes(user)
                              ELSE DOMAIN Recipe
               /\ \A user \in Users :
                      list(user, Params("", "1")) =>
                          IdsOf(response'.data) = shopping_cart(user) ]_vars

\* the filtered list of u2 holds one of the two stored recipes
C25_Witness ==
    /\ response.op = "list"
    /\ response.user = "u2"
    /\ Cardinality(DOMAIN Recipe) = 2
    /\ Cardinality(response.data) = 1
    /\ \A r \in response.data : r.is_in_shopping_cart
    /\ \E u \in Users \ {"u2"} : CartRowsOf(u) # CartRowsOf("u2")

\* C26: after any sequence of subscribe and unsubscribe requests no user
\* follows themselves and there is at most one Follow row for each
\* (user, author); subscribing to oneself or to an author already followed,
\* and unsubscribing from an author not followed, is answered 400 and leaves
\* Follow as it was.
SubscribeOps == {"subscribe", "users_subscribe"}
C26_FollowRows ==
    [][/\ \A u \in Users : CopiesIn(<<u, u>>, Follow') = 0
       /\ \A u \in Users, a \in Users : CopiesIn(<<u, a>>, Follow') <= 1
       /\ \A u \in Users, a \in Users :
             /\ (/\ response'.op \in SubscribeOps
                 /\ response'.user = u
                 /\ u = a \/ CopiesIn(<<u, a>>, Follow) >= 1
                 /\ subscribe(u, a, "POST") \/ users_subscribe(u, a, "POST"))
                => (response'.status = HTTP_400_BAD_REQUEST
                    /\ Follow' = Follow)
             /\ (/\ response'.op \in SubscribeOps
                 /\ response'.user = u
                 /\ CopiesIn(<<u, a>>, Follow) = 0
                 /\ subscribe(u, a, "DELETE")
                        \/ users_subscribe(u, a, "DELETE"))
                => (response'.status = HTTP_400_BAD_REQUEST
                    /\ Follow' = Follow)]_vars

\* a refused subscribe request while both users follow each other
C26_Witness ==
    /\ response.op \in SubscribeOps
    /\ response.status = HTTP_400_BAD_REQUEST
    /\ CopiesIn(<<"u1", "u2">>, Follow) = 1
    /\ CopiesIn(<<"u2", "u1">>, Follow) = 1

\* C27: the is_subscribed flag shown to a requester on the author of a recipe
\* is TRUE exactly when a Follow row (user = requester, author = the author)
\* exists, the value the user-detail serializer reports for that author; it
\* is FALSE for an unauthenticated requester.
C27_IsSubscribedOnAuthor ==
    (response.op = "retrieve" /\ response.status = HTTP_200_OK) =>
        /\ response.data.author.is_subscribed =
               (/\ response.user \in Users
                /\ CopiesIn(<<response.user, response.data.author.id>>,
                            Follow) >= 1)
        /\ response.data.author.is_subscribed =
               UserDetailSerializer_get_is_subscribed(
                   response.user, response.data.author.id)

\* C28: each user has at most one token; a login with valid credentials
\* answers with the user's existing token or, when there is none, creates one
\* under a key no row holds; a login with invalid credentials is answered 400
\* with no token and no change; a logout deletes the caller's token, and the
\* key of a deleted token belongs to no user as long as no login follows.
LoginOps == {"login", "users_login"}
LogoutOps == {"logout", "users_logout"}
TokenOf(rows, u) == {t \in rows : t.user = u}
KeysOf(rows) == {t.key : t \in rows}
C28_TokenLifecycle ==
    [][/\ \A u \in Users : Cardinality(TokenOf(Token', u)) <= 1
       /\ \A data \in Credentials :
             (/\ response'.op \in LoginOps
              /\ login(data) \/ users_login(data)) =>
                 IF data.email \in Users /\ data.password = Password[data.email]
                 THEN /\ response'.status = HTTP_200_OK
                      /\ IF TokenOf(Token, data.email) # {}
                         THEN /\ Token' = Token
                              /\ [user |-> data.email,
                                  key |-> response'.data.auth_token] \in Token
                         ELSE /\ response'.data.auth_token \notin KeysOf(Token)
                              /\ Token' = Token \cup
                                    {[user |-> data.email,
                                      key |-> response'.data.auth_token]}
                 ELSE /\ response'.status = HTTP_400_BAD_REQUEST
                      /\ "data" \notin DOMAIN response'
                      /\ Token' = Token
       /\ \A u \in Users :
             (/\ response'.op \in LogoutOps
              /\ response'.user = u
              /\ TokenOf(Token, u) # {}
              /\ logout(u) \/ users_logout(u)) =>
                 /\ Token' = Token \ TokenOf(Token, u)
                 /\ KeysOf(TokenOf(Token, u)) \cap KeysOf(Token') = {}
       /\ response'.op \notin LoginOps => KeysOf(Token') \subseteq KeysOf(Token)
      ]_vars

\* a user has logged out while the other user keeps a token
C28_Witness ==
    /\ response.op \in LogoutOps
    /\ response.status \in {HTTP_204_NO_CONTENT, HTTP_200_OK}
    /\ Cardinality(Token) = 1

====
